---- MODULE Spec2Model ----
(***************************************************************************)
(* Model of the graph construction engine of kubectl-graph                 *)
(* (pkg/graph/graph.go): the node table, the relationship adjacency, the   *)
(* owner-reference expansion of Graph.Node, the Finalize pass and the      *)
(* batch loop of NewGraph, the rendering entry points Write and String,    *)
(* and the ArgoCD resolver: full-cluster discovery with its list workers   *)
(* and the resolution of applications, application sets and projects.      *)
(***************************************************************************)
EXTENDS Integers, Sequences, FiniteSets, TLC

\* ------------------------------------------------------------------ bounds
\* Largest batch handed to NewGraph.
MaxObjs == 2
\* Largest number of owner references one object declares.
MaxOwners == 1

\* ------------------------------------------------------------ input space
\* Native identifiers of the objects of the cluster snapshot.
UIDs == {"u1", "u2"}
Namespaces == {"", "ns1"}
\* apiVersion and kind of the object each identifier belongs to: one of a
\* group routed to a group handler ("v1"), one of an unrecognized group.
APIVersionOf(uid) == IF uid = "u1" THEN "v1" ELSE "apps/v1"
KindOf(uid) == IF uid = "u1" THEN "Pod" ELSE "ReplicaSet"
\* Label and annotation sets are sets of <<key, value>> pairs.
NoMeta == {}
\* The (labels, annotations) combinations objects are drawn with.
MetaChoices ==
    { <<{<<"env", "prod">>}, NoMeta>>,
      <<NoMeta, {<<"team", "x">>}>>,
      <<{<<"env", "dev">>}, {<<"team", "y">>}>> }
\* Label and annotation handling is per UID: the objects of u1 carry every
\* combination, those of u2 carry none.
MetaChoicesOf(uid) == IF uid = "u1" THEN MetaChoices ELSE {<<NoMeta, NoMeta>>}
\* Labels a group handler gives to the relationships it adds.
HandlerLabels == {"Service"}

NameOf(uid) == "name-" \o uid

\* metav1.OwnerReference
OwnerRefs ==
    { [apiVersion |-> APIVersionOf(u), kind |-> KindOf(u), uid |-> u, name |-> NameOf(u)] :
        u \in UIDs }

SeqsUpTo(S, k) == UNION { [1..m -> S] : m \in 0..k }

\* The object with the given fields (unstructured.Unstructured).
Object(u, ns, m, refs) ==
    [apiVersion |-> APIVersionOf(u), kind |-> KindOf(u), uid |-> u, clusterName |-> "",
     namespace |-> ns, name |-> NameOf(u),
     annotations |-> m[2], labels |-> m[1], ownerReferences |-> refs]

\* The objects a batch may hold.
Objects ==
    UNION { { Object(u, ns, m, refs) :
                ns \in Namespaces, m \in MetaChoicesOf(u),
                refs \in SeqsUpTo(OwnerRefs, MaxOwners) } : u \in UIDs }

\* --------------------------------------------------------------- the store
\* A map (Go map) is a function whose DOMAIN is the set of keys present.
EmptyMap == [k \in {} |-> {}]
Put(m, k, v) == [x \in (DOMAIN m) \cup {k} |-> IF x = k THEN v ELSE m[x]]

\* Graph{Nodes, Relationships} after construction.
EmptyGraph == [Nodes |-> EmptyMap, Relationships |-> EmptyMap]

\* Relationship{From, Label, To}; the Attr bag starts empty and only
\* Relationship.Attribute writes it.
NewRelationship(from, label, to) == [From |-> from, Label |-> label, To |-> to]

\* Index of the first relationship of rs whose From is `from`, 0 if none.
FindFrom(rs, from) ==
    IF \E k \in 1..Len(rs) : rs[k].From = from
    THEN CHOOSE k \in 1..Len(rs) :
            rs[k].From = from /\ \A j \in 1..(k - 1) : rs[j].From # from
    ELSE 0

\* A variant that appends without looking for an existing relationship.
RelationshipNoDedup(G, from, label, to) ==
    LET r  == NewRelationship(from, label, to)
        rs == IF to \in DOMAIN G.Relationships THEN G.Relationships[to] ELSE << >>
    IN  [G |-> [G EXCEPT !.Relationships = Put(G.Relationships, to, Append(rs, r))],
         r |-> r]

\* Graph.Relationship(from, label, to): from and to are the nodes' UIDs.
\* Yields the graph afterwards and the relationship returned.
Relationship(G, from, label, to) ==
    LET rs == IF to \in DOMAIN G.Relationships THEN G.Relationships[to] ELSE << >>
        k  == FindFrom(rs, from)
    IN  IF to \in DOMAIN G.Relationships /\ k # 0
        THEN [G |-> G, r |-> rs[k]]
        ELSE LET r == NewRelationship(from, label, to)
             IN  [G |-> [G EXCEPT !.Relationships =
                                    Put(G.Relationships, to, Append(rs, r))],
                  r |-> r]

\* RelationshipList: every relationship of the graph (as a set: the code
\* guarantees no order).
RelationshipList(G) ==
    UNION { { G.Relationships[t][k] : k \in 1..Len(G.Relationships[t]) } :
            t \in DOMAIN G.Relationships }

\* The node built at the head of Graph.Node from gvk and obj.
NewNode(apiVersion, kind, obj) ==
    [apiVersion |-> apiVersion, kind |-> kind, uid |-> obj.uid,
     clusterName |-> obj.clusterName, namespace |-> obj.namespace,
     name |-> obj.name, annotations |-> obj.annotations, labels |-> obj.labels]

\* A variant of the merge where the incoming sets always win.
NodeUpsertLastWins(G, apiVersion, kind, obj) ==
    [G EXCEPT !.Nodes = Put(G.Nodes, obj.uid, NewNode(apiVersion, kind, obj))]

\* Graph.Node up to the store of the node: build the node, keep the stored
\* non-empty annotation and label sets, store it under its UID.
NodeUpsert(G, apiVersion, kind, obj) ==
    LET node == NewNode(apiVersion, kind, obj)
        has  == obj.uid \in DOMAIN G.Nodes
        n    == G.Nodes[obj.uid]
        anns == IF has /\ Cardinality(n.annotations) # 0
                THEN n.annotations ELSE node.annotations
        lbls == IF has /\ Cardinality(n.labels) # 0
                THEN n.labels ELSE node.labels
    IN  [G EXCEPT !.Nodes =
            Put(G.Nodes, obj.uid,
                [node EXCEPT !.annotations = anns, !.labels = lbls])]

\* A stub that takes its name from the child instead of the reference.
OwnerStubChildName(ownerRef, obj) ==
    [uid |-> ownerRef.uid, name |-> obj.name, namespace |-> obj.namespace,
     clusterName |-> "", annotations |-> NoMeta, labels |-> NoMeta,
     ownerReferences |-> << >>]

\* A stub that inherits the owner references of the child.
OwnerStubKeepsOwners(ownerRef, obj) ==
    [uid |-> ownerRef.uid, name |-> ownerRef.name, namespace |-> obj.namespace,
     clusterName |-> "", annotations |-> NoMeta, labels |-> NoMeta,
     ownerReferences |-> obj.ownerReferences]

\* The metav1.ObjectMeta handed to the recursive call for an owner.
OwnerStub(ownerRef, obj) ==
    [uid |-> ownerRef.uid, name |-> ownerRef.name, namespace |-> obj.namespace,
     clusterName |-> "", annotations |-> NoMeta, labels |-> NoMeta,
     ownerReferences |-> << >>]

RECURSIVE Node(_, _, _, _)
RECURSIVE ExpandOwners(_, _, _, _)

\* The loop over obj.GetOwnerReferences(), from the k-th reference on.
ExpandOwners(G, kind, obj, k) ==
    IF k > Len(obj.ownerReferences)
    THEN G
    ELSE LET ownerRef == obj.ownerReferences[k]
             G1 == Node(G, ownerRef.apiVersion, ownerRef.kind, OwnerStub(ownerRef, obj))
             G2 == Relationship(G1, ownerRef.uid, kind, obj.uid).G
         IN  ExpandOwners(G2, kind, obj, k + 1)

\* Graph.Node(gvk, obj): the graph afterwards.
Node(G, apiVersion, kind, obj) ==
    ExpandOwners(NodeUpsert(G, apiVersion, kind, obj), kind, obj, 1)

\* Depth at which the call stack of Graph.Node is no longer followed.
DepthCap == 3

RECURSIVE NodeDepth(_, _)
\* The deepest level of the call tree of Graph.Node(gvk, obj), the call for
\* obj being at level d: each owner reference makes one recursive call, for
\* the stub of the owner.
NodeDepth(obj, d) ==
    IF d >= DepthCap \/ Len(obj.ownerReferences) = 0
    THEN d
    ELSE LET below == { NodeDepth(OwnerStub(obj.ownerReferences[k], obj), d + 1) :
                          k \in 1..Len(obj.ownerReferences) }
         IN  CHOOSE m \in below : \A x \in below : x <= m

RECURSIVE NodeCalls(_, _)
\* The number of calls of Graph.Node that Graph.Node(gvk, obj) makes, itself
\* included, followed down to DepthCap.
NodeCalls(obj, d) ==
    IF d >= DepthCap \/ Len(obj.ownerReferences) = 0
    THEN 1
    ELSE LET Sum[k \in 0..Len(obj.ownerReferences)] ==
                 IF k = 0 THEN 0
                 ELSE Sum[k - 1] + NodeCalls(OwnerStub(obj.ownerReferences[k], obj), d + 1)
         IN  1 + Sum[Len(obj.ownerReferences)]

\* ------------------------------------------------------- identity hasher
RECURSIVE Join(_, _)
\* strings.Join(input, sep)
Join(input, sep) ==
    IF Len(input) = 0 THEN ""
    ELSE IF Len(input) = 1 THEN input[1]
    ELSE input[1] \o sep \o Join(Tail(input), sep)

\* ToUID(params...): the input slice is made with len(params) empty strings
\* and the params are appended to it; the digest is kept symbolic.
ToUID(params) ==
    "md5(" \o Join([k \in 1..Len(params) |-> ""] \o params, "-") \o ")"

\* ------------------------------------------- root resolution (CoreV1Graph)
NoErr == [kind |-> "none", uid |-> ""]
\* The name the cluster root is registered under; an empty cluster name
\* resolves to the cluster of the current context.
ClusterRootName(name) == IF name = "" THEN "default" ELSE name

\* CoreV1Graph.Cluster(name): registers the cluster root through Node under
\* a hashed identifier and returns it.
Cluster(G, name) ==
    LET cname == ClusterRootName(name)
        meta  == [uid |-> ToUID(<<"Cluster", cname>>), name |-> cname, namespace |-> "",
                  clusterName |-> cname, annotations |-> NoMeta, labels |-> NoMeta,
                  ownerReferences |-> << >>]
        G1    == Node(G, "v1", "Cluster", meta)
    IN  [G |-> G1, node |-> G1.Nodes[meta.uid]]

\* CoreV1Graph.Namespace(&v1.Namespace{ObjectMeta: metadata}): registers the
\* namespace root of (cluster, namespace) through Node and returns it.
Namespace(G, clusterName, name) ==
    LET meta == [uid |-> ToUID(<<"Namespace", clusterName, name>>), name |-> name,
                 namespace |-> "", clusterName |-> clusterName,
                 annotations |-> NoMeta, labels |-> NoMeta, ownerReferences |-> << >>]
        G1   == Node(G, "v1", "Namespace", meta)
    IN  [G |-> G1, node |-> G1.Nodes[meta.uid]]

\* ----------------------------------------------------------------- Finalize
\* Outcomes of the two resolutions of one iteration.
Failures == {"none", "cluster", "namespace"}

IsRoot(node) == node.kind = "Cluster" \/ node.kind = "Namespace"

\* Lines 243-253 of the loop body: connect node u to the cluster root, or
\* to its namespace root, resolving the latter.
FinalizeConnect(G, u, cluster, fail) ==
    LET node == G.Nodes[u]
    IN  IF node.namespace = ""
        THEN [G |-> Relationship(G, cluster.uid, node.kind, u).G, err |-> NoErr]
        ELSE IF fail = "namespace"
        THEN [G |-> G, err |-> [kind |-> "namespace", uid |-> u]]
        ELSE LET ns == Namespace(G, node.clusterName, node.namespace)
             IN  [G |-> Relationship(ns.G, ns.node.uid, node.kind, u).G, err |-> NoErr]

\* A variant of the loop body without the already-connected test.
FinalizeNodeNoSkip(G, u, fail) ==
    LET node == G.Nodes[u]
    IN  IF IsRoot(node) THEN [G |-> G, err |-> NoErr]
        ELSE IF fail = "cluster"
        THEN [G |-> G, err |-> [kind |-> "cluster", uid |-> u]]
        ELSE LET c  == Cluster(G, node.clusterName)
                 G1 == [c.G EXCEPT !.Nodes[u].clusterName = c.node.name]
             IN  FinalizeConnect(G1, u, c.node, fail)

\* A variant of the loop body that always appends the root relationship:
\* no already-connected test, no lookup of an existing relationship.
FinalizeNodeAlwaysAppend(G, u, fail) ==
    LET node == G.Nodes[u]
    IN  IF IsRoot(node) THEN [G |-> G, err |-> NoErr]
        ELSE IF fail = "cluster"
        THEN [G |-> G, err |-> [kind |-> "cluster", uid |-> u]]
        ELSE LET c  == Cluster(G, node.clusterName)
                 G1 == [c.G EXCEPT !.Nodes[u].clusterName = c.node.name]
             IN  IF node.namespace = ""
                 THEN [G |-> RelationshipNoDedup(G1, c.node.uid, node.kind, u).G,
                       err |-> NoErr]
                 ELSE IF fail = "namespace"
                 THEN [G |-> G1, err |-> [kind |-> "namespace", uid |-> u]]
                 ELSE LET ns == Namespace(G1, c.node.name, node.namespace)
                      IN  [G |-> RelationshipNoDedup(ns.G, ns.node.uid, node.kind, u).G,
                           err |-> NoErr]

\* A variant of the loop body that leaves cluster-scoped nodes unconnected.
FinalizeNodeNamespacedOnly(G, u, fail) ==
    LET node == G.Nodes[u]
    IN  IF IsRoot(node) THEN [G |-> G, err |-> NoErr]
        ELSE IF fail = "cluster"
        THEN [G |-> G, err |-> [kind |-> "cluster", uid |-> u]]
        ELSE LET c  == Cluster(G, node.clusterName)
                 G1 == [c.G EXCEPT !.Nodes[u].clusterName = c.node.name]
             IN  IF u \in DOMAIN G1.Relationships \/ node.namespace = ""
                 THEN [G |-> G1, err |-> NoErr]
                 ELSE FinalizeConnect(G1, u, c.node, fail)

\* One iteration of the loop of Graph.Finalize, for the node stored under u.
\* fail names the resolution that fails in this iteration, if it is made.
\* Yields the graph afterwards and the error returned (NoErr: the loop goes on).
FinalizeNode(G, u, fail) ==
    LET node == G.Nodes[u]
    IN  IF IsRoot(node) THEN [G |-> G, err |-> NoErr]
        ELSE IF fail = "cluster"
        THEN [G |-> G, err |-> [kind |-> "cluster", uid |-> u]]
        ELSE LET c  == Cluster(G, node.clusterName)
                 G1 == [c.G EXCEPT !.Nodes[u].clusterName = c.node.name]
             IN  IF u \in DOMAIN G1.Relationships
                 THEN [G |-> G1, err |-> NoErr]
                 ELSE FinalizeConnect(G1, u, c.node, fail)

\* ----------------------------------------------------- resource dispatcher
\* The API versions Graph.Unstructured routes to a group handler.
HandledGroups == {"v1", "networking.k8s.io/v1", "route.openshift.io/v1"}

NoFrom == "-"
\* What a group handler does with one object: the node it relates to the
\* object's node (NoFrom: none) and whether it returns an error.
HandlerChoices(G) ==
    [from : (DOMAIN G.Nodes) \cup {NoFrom}, label : HandlerLabels, fails : BOOLEAN]

\* CoreV1Graph.Unstructured and its siblings: a handler adds group-specific
\* relationships through Graph.Relationship and may return an error.
HandleObject(G, obj, h) ==
    [G   |-> IF h.from = NoFrom THEN G ELSE Relationship(G, h.from, h.label, obj.uid).G,
     err |-> IF h.fails THEN [kind |-> "handler", uid |-> obj.uid] ELSE NoErr]

\* Graph.Unstructured(unstr): register the node, then dispatch on the API
\* version.
Unstructured(G, obj, h) ==
    LET G1 == Node(G, obj.apiVersion, obj.kind, obj)
    IN  IF obj.apiVersion \in HandledGroups
        THEN HandleObject(G1, obj, h)
        ELSE [G |-> G1, err |-> NoErr]

\* errors.NewAggregate(errs): nil for an empty list.
NewAggregate(errlist) == [isNil |-> Len(errlist) = 0, errors |-> errlist]

\* ------------------------------------------------------------------- state
VARIABLES
    Nodes,            \* g.Nodes
    Relationships,    \* g.Relationships
    pc,               \* position in NewGraph / Finalize
    n,                \* len(objs)
    i,                \* objects whose loop iteration is complete
    obj,              \* the loop variable of NewGraph
    errs,             \* errs of NewGraph
    processed,        \* calls of the progress callback
    pass,             \* Finalize passes started
    pending,          \* keys of g.Nodes the range loop has not produced yet
    finErr,           \* what the current or last Finalize pass returned
    ret,              \* what NewGraph returned
    \* history
    unstructuredCalls,  \* calls of Graph.Unstructured
    handlerErrs,        \* the errors the handlers returned, in order
    lastRelate,         \* the Relationship call of the handler of the current object
    firstLabels,        \* per UID, the first non-empty label set presented
    firstAnnotations,   \* per UID, the first non-empty annotation set presented
    ingestedAs,         \* per UID, name and namespace of the object last ingested under it
    relsBefore,         \* g.Relationships when the current pass started
    reachedConnected,   \* nodes the pass reached that had incoming relationships
    visited,            \* keys the pass has produced
    finAdded,           \* nodes and relationships the pass added so far
    \* rendering
    format,           \* the format name requested
    stream,           \* what has been written to the caller's io.Writer
    rendered,         \* the call made and what it returned
    \* full-cluster discovery (getAllObjects)
    perIteration,     \* the build gives the range loop a variable per iteration
    dpc,              \* position of getAllObjects
    gi,               \* index of apiResource in apiResources
    ai,               \* APIResources of the group whose worker was started
    wpc,              \* position of the worker of each resource type
    result,           \* the local slice result of each worker
    lock,             \* holder of the mutex of the group ("" when free)
    wg,               \* counter of the WaitGroup
    results,          \* the shared map of the group
    unmerged,         \* keys of results the merge loop has not produced yet
    objs,             \* the flat collection under construction
    dret,             \* what getAllObjects returned
    listed,           \* history: outcome of the list request of each type
    unguarded,        \* history: a write to results without the lock held
    early,            \* history: a read of results while a worker was running
    \* ArgoCD resolver
    snapshot,         \* what the list requests of the resolver return
    resolved          \* the entry point called and its outcome

vars == <<Nodes, Relationships, pc, n, i, obj, errs, processed, pass, pending,
          finErr, ret, unstructuredCalls, handlerErrs, lastRelate, firstLabels, firstAnnotations,
          ingestedAs, relsBefore, reachedConnected, visited, finAdded,
          format, stream, rendered,
          perIteration, dpc, gi, ai, wpc, result, lock, wg, results, unmerged, objs, dret,
          listed, unguarded, early, snapshot, resolved>>

\* The variables of the batch loop and of Finalize, the graph apart.
batchVars == <<pc, n, i, obj, errs, processed, pass, pending, finErr, ret,
               unstructuredCalls, handlerErrs, lastRelate, firstLabels, firstAnnotations,
               ingestedAs, relsBefore, reachedConnected, visited, finAdded>>
renderVars == <<format, stream, rendered>>
\* The variables the batch loop and Finalize leave alone.
discoveryVars == <<perIteration, dpc, gi, ai, wpc, result, lock, wg, results, unmerged,
                   objs, dret, listed, unguarded, early>>
resolverVars == <<snapshot, resolved>>
extVars == <<renderVars, discoveryVars, resolverVars>>

g == [Nodes |-> Nodes, Relationships |-> Relationships]

NoObj == [apiVersion |-> "", kind |-> "", uid |-> "", clusterName |-> "",
          namespace |-> "", name |-> "", annotations |-> NoMeta, labels |-> NoMeta,
          ownerReferences |-> << >>]
NotReturned == [returned |-> FALSE, err |-> NewAggregate(<< >>), finalizeErr |-> NoErr]

NoRelationship == NewRelationship("", "", "")
NoRelate == [called |-> FALSE, existed |-> FALSE, from |-> "", label |-> "", to |-> "",
             existing |-> NoRelationship, returned |-> NoRelationship]
\* The relationships of G from `from` to `to`.
Between(G, from, to) == { r \in RelationshipList(G) : r.From = from /\ r.To = to }
\* The record of the handler's call Relationship(h.from, h.label, o) on G.
RelateRecord(G, o, h) ==
    IF o.apiVersion \in HandledGroups /\ h.from # NoFrom
    THEN [called |-> TRUE, existed |-> Between(G, h.from, o.uid) # {},
          from |-> h.from, label |-> h.label, to |-> o.uid,
          existing |-> IF Between(G, h.from, o.uid) # {}
                       THEN CHOOSE r \in Between(G, h.from, o.uid) : TRUE
                       ELSE NoRelationship,
          returned |-> Relationship(G, h.from, h.label, o.uid).r]
    ELSE NoRelate

\* The first non-empty set presented for uid, after `set` is presented.
Present(first, uid, set) ==
    IF uid \in DOMAIN first /\ first[uid] # NoMeta THEN first ELSE Put(first, uid, set)

\* ------------------------------------------------- discovery: input space
\* Largest number of objects one list request returns.
MaxItems == 2

\* discovery.ServerPreferredResources(): the group versions of the cluster,
\* in the order returned, and the resource types of each.
APIGroups == <<"v1", "apps/v1">>
APIResourcesOf(gv) == IF gv = "v1" THEN <<"pods", "services">> ELSE <<"replicasets">>
ResourceTypes ==
    UNION { { <<APIGroups[a], APIResourcesOf(APIGroups[a])[k]>> :
                k \in 1..Len(APIResourcesOf(APIGroups[a])) } : a \in 1..Len(APIGroups) }

\* gvr.String() of the GroupVersionResource built at lines 198-200.
GVRString(t) == t[1] \o ", Resource=" \o t[2]

\* The k-th object a list request for type t returns.
Item(t, k) == [gvr |-> GVRString(t), item |-> k]
\* objList.Items of a successful list request for type t.
ItemLists(t) == { [k \in 1..m |-> Item(t, k)] : m \in 0..MaxItems }

NotListed == [done |-> FALSE, ok |-> FALSE, items |-> << >>]
NoObjs == [returned |-> FALSE, isErr |-> FALSE, objs |-> << >>]

\* getAllObjects is not running.
DiscoveryIdle ==
    /\ perIteration = TRUE
    /\ dpc = "idle"
    /\ gi = 0
    /\ ai = 0
    /\ wpc = [t \in ResourceTypes |-> "none"]
    /\ result = [t \in ResourceTypes |-> << >>]
    /\ lock = ""
    /\ wg = 0
    /\ results = EmptyMap
    /\ unmerged = {}
    /\ objs = << >>
    /\ dret = NoObjs
    /\ listed = [t \in ResourceTypes |-> NotListed]
    /\ unguarded = FALSE
    /\ early = FALSE

\* No entry point of the resolver was called.
NoResolution == [entry |-> "none"]
ResolverIdle ==
    /\ snapshot = << >>
    /\ resolved = NoResolution

\* No rendering was requested.
NoRender == [call |-> "none", isErr |-> FALSE, err |-> "", out |-> << >>]
RenderIdle ==
    /\ format = ""
    /\ stream = << >>
    /\ rendered = NoRender

\* NewGraph has not started its loop.
BatchIdle ==
    /\ pc = "loop"
    /\ i = 0
    /\ obj = NoObj
    /\ errs = << >>
    /\ processed = 0
    /\ pass = 0
    /\ pending = {}
    /\ finErr = NoErr
    /\ ret = NotReturned
    /\ unstructuredCalls = 0
    /\ handlerErrs = << >>
    /\ lastRelate = NoRelate
    /\ firstLabels = EmptyMap
    /\ firstAnnotations = EmptyMap
    /\ ingestedAs = EmptyMap
    /\ relsBefore = EmptyMap
    /\ reachedConnected = {}
    /\ visited = {}
    /\ finAdded = [nodes |-> {}, rels |-> {}]

Init ==
    /\ Nodes = EmptyGraph.Nodes
    /\ Relationships = EmptyGraph.Relationships
    /\ n \in 0..MaxObjs
    /\ BatchIdle
    /\ RenderIdle
    /\ DiscoveryIdle
    /\ ResolverIdle

finHistory == <<relsBefore, reachedConnected, visited, finAdded>>
ingestHistory ==
    <<unstructuredCalls, handlerErrs, lastRelate, firstLabels, firstAnnotations, ingestedAs>>

\* A variant of the loop guard that leaves the last object out.
MoreObjectsSkipLast == i + 1 < n

\* A variant of the loop that ends at the first error.
MoreObjectsStopOnError == i < n /\ errs = << >>

\* The range loop of NewGraph has another object.
MoreObjects == i < n

\* NewGraph lines 150-154: err := g.Unstructured(obj), collected in errs.
Ingest ==
    /\ pc = "loop"
    /\ MoreObjects
    /\ \E o \in Objects :
         LET G1 == Node(g, o.apiVersion, o.kind, o)
         IN  \E h \in HandlerChoices(G1) :
               LET r == Unstructured(g, o, h)
               IN  /\ Nodes' = r.G.Nodes
                   /\ Relationships' = r.G.Relationships
                   /\ obj' = o
                   /\ errs' = IF r.err # NoErr THEN Append(errs, r.err) ELSE errs
                   /\ handlerErrs' = IF r.err # NoErr THEN Append(handlerErrs, r.err)
                                     ELSE handlerErrs
                   /\ lastRelate' = RelateRecord(G1, o, h)
                   /\ firstLabels' = Present(firstLabels, o.uid, o.labels)
                   /\ firstAnnotations' = Present(firstAnnotations, o.uid, o.annotations)
    /\ unstructuredCalls' = unstructuredCalls + 1
    /\ pc' = "callback"
    /\ UNCHANGED <<extVars, n, i, processed, pass, pending, finErr, ret, finHistory>>

\* One iteration of the loop of NewGraph up to the callback.
IngestObject ==
    /\ Ingest
    /\ UNCHANGED ingestedAs

\* The same step, with the record of the descriptor ingested.
IngestObjectTracked ==
    /\ Ingest
    /\ ingestedAs' = Put(ingestedAs, obj'.uid,
                         [name |-> obj'.name, namespace |-> obj'.namespace])

\* NewGraph line 155: processed(), end of the iteration.
Processed ==
    /\ pc = "callback"
    /\ processed' = processed + 1
    /\ i' = i + 1
    /\ obj' = NoObj
    /\ lastRelate' = NoRelate
    /\ pc' = "loop"
    /\ UNCHANGED <<extVars, Nodes, Relationships, n, errs, pass, pending, finErr, ret,
                   unstructuredCalls, handlerErrs, firstLabels, firstAnnotations,
                   ingestedAs, finHistory>>

\* Entry of Graph.Finalize: the range loop starts over the keys present.
StartPass ==
    /\ pass' = pass + 1
    /\ pending' = DOMAIN Nodes
    /\ finErr' = NoErr
    /\ pc' = "finalize"
    /\ relsBefore' = Relationships
    /\ reachedConnected' = {}
    /\ visited' = {}
    /\ finAdded' = [nodes |-> {}, rels |-> {}]

\* NewGraph line 158: err := g.Finalize(), once the loop over objs is over.
NewGraphFinalize ==
    /\ pc = "loop"
    /\ ~MoreObjects
    /\ StartPass
    /\ UNCHANGED <<extVars, Nodes, Relationships, n, i, obj, errs, processed, ret, ingestHistory>>

\* A variant of the iteration that goes on after an error and returns it
\* when the loop is over.
FinalizeVisitKeepGoing ==
    /\ pc = "finalize"
    /\ \E u \in pending, fail \in Failures :
         LET r == FinalizeNode(g, u, fail)
         IN  /\ Nodes' = r.G.Nodes
             /\ Relationships' = r.G.Relationships
             /\ pending' = pending \ {u}
             /\ finErr' = IF r.err # NoErr THEN r.err ELSE finErr
             /\ pc' = "finalize"
             /\ visited' = visited \cup {u}
             /\ reachedConnected' =
                   reachedConnected \cup (IF u \in DOMAIN Relationships THEN {u} ELSE {})
             /\ finAdded' =
                   [nodes |-> finAdded.nodes \cup ((DOMAIN r.G.Nodes) \ (DOMAIN Nodes)),
                    rels  |-> finAdded.rels \cup (RelationshipList(r.G) \ RelationshipList(g))]
    /\ UNCHANGED <<extVars, n, i, obj, errs, processed, pass, ret, relsBefore, ingestHistory>>

\* One iteration of the range loop of Finalize. The loop produces every key
\* present when it started. A key inserted meanwhile may or may not be
\* produced: such a key is a root, for which the body is the continue of
\* line 230, a step that changes nothing. An error ends the pass.
FinalizeVisit ==
    /\ pc = "finalize"
    /\ \E u \in pending, fail \in Failures :
         LET r == FinalizeNode(g, u, fail)
         IN  /\ Nodes' = r.G.Nodes
             /\ Relationships' = r.G.Relationships
             /\ pending' = pending \ {u}
             /\ finErr' = r.err
             /\ pc' = IF r.err # NoErr THEN "finalized" ELSE "finalize"
             /\ visited' = visited \cup {u}
             /\ reachedConnected' =
                   reachedConnected \cup (IF u \in DOMAIN Relationships THEN {u} ELSE {})
             /\ finAdded' =
                   [nodes |-> finAdded.nodes \cup ((DOMAIN r.G.Nodes) \ (DOMAIN Nodes)),
                    rels  |-> finAdded.rels \cup (RelationshipList(r.G) \ RelationshipList(g))]
    /\ UNCHANGED <<extVars, n, i, obj, errs, processed, pass, ret, relsBefore, ingestHistory>>

\* Finalize line 256: the range loop is over, return nil.
FinalizeReturn ==
    /\ pc = "finalize"
    /\ pending = {}
    /\ pc' = "finalized"
    /\ UNCHANGED <<extVars, Nodes, Relationships, n, i, obj, errs, processed, pass, pending,
                   finErr, ret, ingestHistory, finHistory>>

\* NewGraph lines 159-163: collect the error of Finalize, return the graph
\* and the aggregate.
NewGraphReturn ==
    /\ pc = "finalized"
    /\ pass = 1
    /\ errs' = IF finErr # NoErr THEN Append(errs, finErr) ELSE errs
    /\ ret' = [returned |-> TRUE, err |-> NewAggregate(errs'), finalizeErr |-> finErr]
    /\ pc' = "done"
    /\ UNCHANGED <<extVars, Nodes, Relationships, n, i, obj, processed, pass, pending,
                   finErr, ingestHistory, finHistory>>

\* The caller of NewGraph runs Finalize again on the graph a successful
\* pass left.
CallerFinalize ==
    /\ pc = "done"
    /\ pass = 1
    /\ ret.finalizeErr = NoErr
    /\ StartPass
    /\ UNCHANGED <<extVars, Nodes, Relationships, n, i, obj, errs, processed, ret, ingestHistory>>

\* The second pass returns to the caller.
CallerFinalizeReturn ==
    /\ pc = "finalized"
    /\ pass = 2
    /\ pc' = "done"
    /\ UNCHANGED <<extVars, Nodes, Relationships, n, i, obj, errs, processed, pass, pending,
                   finErr, ret, ingestHistory, finHistory>>

Next ==
    \/ IngestObject
    \/ Processed
    \/ NewGraphFinalize
    \/ FinalizeVisit
    \/ FinalizeReturn
    \/ NewGraphReturn
    \/ CallerFinalize
    \/ CallerFinalizeReturn

Spec == Init /\ [][Next]_vars

\* NewGraph and Finalize with the record of the descriptors ingested.
NextTracked ==
    \/ IngestObjectTracked
    \/ Processed
    \/ NewGraphFinalize
    \/ FinalizeVisit
    \/ FinalizeReturn
    \/ NewGraphReturn
    \/ CallerFinalize
    \/ CallerFinalizeReturn

SpecTracked == Init /\ [][NextTracked]_vars

\* ---------------------------------------------------------------- rendering
\* The templates registered by init(): the root template "output" carries
\* the helper functions and has no body of its own.
RegisteredTemplates == {"cypher", "graphviz"}
\* The format names a caller asks for.
Formats == RegisteredTemplates \cup {"output", "json", ""}

\* The document a registered template yields for a graph; the template text
\* is not modelled, the document is a function of the template and the graph.
Document(name, G) ==
    [template |-> name, nodes |-> DOMAIN G.Nodes, relationships |-> RelationshipList(G)]

\* templates.ExecuteTemplate(w, name, g): a name without a template is an
\* error returned before anything is written.
ExecuteTemplate(w, name, G) ==
    IF name \in RegisteredTemplates
    THEN [w |-> Append(w, Document(name, G)), isErr |-> FALSE, err |-> ""]
    ELSE [w |-> w, isErr |-> TRUE, err |-> "no template " \o name]

\* Graph.Write(w, format): the writer afterwards and the error returned.
Write(G, w, fmt) == ExecuteTemplate(w, fmt, G)

\* Graph.String(format): writes into a fresh buffer, drops what Write
\* returns and returns the content of the buffer. Its only result is the
\* string.
String(G, fmt) ==
    LET b == Write(G, << >>, fmt).w
    IN  [out |-> b]

\* The graphs a rendering is requested for: the empty graph and the graphs
\* of one ingested object.
RenderedGraphs ==
    {EmptyGraph} \cup { Node(EmptyGraph, o.apiVersion, o.kind, o) : o \in Objects }

InitRender ==
    /\ \E G \in RenderedGraphs :
          /\ Nodes = G.Nodes
          /\ Relationships = G.Relationships
    /\ n = 0
    /\ BatchIdle
    /\ format \in Formats
    /\ stream = << >>
    /\ rendered = NoRender
    /\ DiscoveryIdle
    /\ ResolverIdle

\* The caller calls g.Write(w, format) with its writer.
CallWrite ==
    /\ rendered.call = "none"
    /\ LET r == Write(g, stream, format)
       IN  /\ stream' = r.w
           /\ rendered' = [call |-> "Write", isErr |-> r.isErr, err |-> r.err, out |-> << >>]
    /\ UNCHANGED <<Nodes, Relationships, n, batchVars, format, discoveryVars, resolverVars>>

\* The caller calls g.String(format): the result carries no error.
CallString ==
    /\ rendered.call = "none"
    /\ LET r == String(g, format)
       IN  rendered' = [call |-> "String", isErr |-> FALSE, err |-> "", out |-> r.out]
    /\ UNCHANGED <<Nodes, Relationships, n, batchVars, format, stream,
                   discoveryVars, resolverVars>>

NextRender ==
    \/ CallWrite
    \/ CallString

SpecRender == InitRender /\ [][NextRender]_vars

\* ---------------------------------------------------------------- discovery
\* Lines 222-225: the slice result of a successful list request, as read
\* after the loop, which appends &obj for every item. The build decides what
\* obj is: with a variable per iteration every pointer refers to its own
\* item; with one variable for the whole loop every pointer refers to that
\* variable, which holds the last item when the loop is over.
CollectItems(items, fresh) ==
    IF fresh THEN items ELSE [k \in 1..Len(items) |-> items[Len(items)]]

\* The group version at index k of apiResources and its resource types.
GroupOf(k) == APIGroups[k]
TypesOfGroup(k) ==
    { <<GroupOf(k), APIResourcesOf(GroupOf(k))[j]>> : j \in 1..Len(APIResourcesOf(GroupOf(k))) }

InitDiscovery ==
    /\ Nodes = EmptyGraph.Nodes
    /\ Relationships = EmptyGraph.Relationships
    /\ n = 0
    /\ BatchIdle
    /\ RenderIdle
    /\ ResolverIdle
    /\ perIteration \in BOOLEAN
    /\ dpc = "discover"
    /\ gi = 0
    /\ ai = 0
    /\ wpc = [t \in ResourceTypes |-> "none"]
    /\ result = [t \in ResourceTypes |-> << >>]
    /\ lock = ""
    /\ wg = 0
    /\ results = EmptyMap
    /\ unmerged = {}
    /\ objs = << >>
    /\ dret = NoObjs
    /\ listed = [t \in ResourceTypes |-> NotListed]
    /\ unguarded = FALSE
    /\ early = FALSE

discoveryFrame == <<Nodes, Relationships, n, batchVars, renderVars, resolverVars, perIteration>>

\* Lines 187-190: ServerPreferredResources fails, getAllObjects returns the
\* error.
DiscoveryFails ==
    /\ dpc = "discover"
    /\ dpc' = "returned"
    /\ dret' = [returned |-> TRUE, isErr |-> TRUE, objs |-> << >>]
    /\ UNCHANGED <<discoveryFrame, gi, ai, wpc, result, lock, wg, results, unmerged, objs,
                   listed, unguarded, early>>

\* Lines 187-195: ServerPreferredResources succeeds; the loop over
\* apiResources starts with a new map and a new mutex.
DiscoverySucceeds ==
    /\ dpc = "discover"
    /\ dpc' = "spawn"
    /\ gi' = 1
    /\ ai' = 0
    /\ results' = EmptyMap
    /\ lock' = ""
    /\ UNCHANGED <<discoveryFrame, wpc, result, wg, unmerged, objs, dret,
                   listed, unguarded, early>>

\* Lines 196-202: wg.Add(1) and go g.fetchObjectsForResource(...) for the
\* next resource type of the group.
StartWorker ==
    /\ dpc = "spawn"
    /\ ai < Len(APIResourcesOf(GroupOf(gi)))
    /\ LET t == <<GroupOf(gi), APIResourcesOf(GroupOf(gi))[ai + 1]>>
       IN  wpc' = [wpc EXCEPT ![t] = "list"]
    /\ wg' = wg + 1
    /\ ai' = ai + 1
    /\ UNCHANGED <<discoveryFrame, dpc, gi, result, lock, results, unmerged, objs, dret,
                   listed, unguarded, early>>

\* Lines 215-225: the list request of the worker. It fails, and the worker
\* goes on with an empty slice, or it returns objList and the worker
\* collects the addresses of the items.
WorkerList(t) ==
    /\ wpc[t] = "list"
    /\ \/ /\ result' = [result EXCEPT ![t] = << >>]
          /\ listed' = [listed EXCEPT ![t] = [done |-> TRUE, ok |-> FALSE, items |-> << >>]]
       \/ \E items \in ItemLists(t) :
             /\ result' = [result EXCEPT ![t] = CollectItems(items, perIteration)]
             /\ listed' = [listed EXCEPT ![t] = [done |-> TRUE, ok |-> TRUE, items |-> items]]
    /\ wpc' = [wpc EXCEPT ![t] = "lock"]
    /\ UNCHANGED <<discoveryFrame, dpc, gi, ai, lock, wg, results, unmerged, objs, dret,
                   unguarded, early>>

\* Lines 218 and 226: lock.Lock().
WorkerLock(t) ==
    /\ wpc[t] = "lock"
    /\ lock = ""
    /\ lock' = GVRString(t)
    /\ wpc' = [wpc EXCEPT ![t] = "write"]
    /\ UNCHANGED <<discoveryFrame, dpc, gi, ai, result, wg, results, unmerged, objs, dret,
                   listed, unguarded, early>>

\* Lines 219 and 227: results[gvr.String()] = result.
WorkerWrite(t) ==
    /\ wpc[t] = "write"
    /\ results' = Put(results, GVRString(t), result[t])
    /\ unguarded' = (unguarded \/ lock # GVRString(t))
    /\ early' = (early \/ dpc = "merge")
    /\ wpc' = [wpc EXCEPT ![t] = "unlock"]
    /\ UNCHANGED <<discoveryFrame, dpc, gi, ai, result, lock, wg, unmerged, objs, dret,
                   listed>>

\* Line 214, deferred: lock.Unlock().
WorkerUnlock(t) ==
    /\ wpc[t] = "unlock"
    /\ lock' = ""
    /\ wpc' = [wpc EXCEPT ![t] = "done"]
    /\ UNCHANGED <<discoveryFrame, dpc, gi, ai, result, wg, results, unmerged, objs, dret,
                   listed, unguarded, early>>

\* Line 213, deferred: wg.Done(); the worker is over.
WorkerDone(t) ==
    /\ wpc[t] = "done"
    /\ wg' = wg - 1
    /\ wpc' = [wpc EXCEPT ![t] = "over"]
    /\ UNCHANGED <<discoveryFrame, dpc, gi, ai, result, lock, results, unmerged, objs, dret,
                   listed, unguarded, early>>

\* wg.Wait() returns when the counter is zero.
WaitOver == wg = 0

\* Line 203: every worker of the group was started and wg.Wait() returns;
\* the range loop over results starts.
Wait ==
    /\ dpc = "spawn"
    /\ ai = Len(APIResourcesOf(GroupOf(gi)))
    /\ WaitOver
    /\ dpc' = "merge"
    /\ unmerged' = DOMAIN results
    /\ early' = (early \/ \E t \in TypesOfGroup(gi) : wpc[t] # "over")
    /\ UNCHANGED <<discoveryFrame, gi, ai, wpc, result, lock, wg, results, objs, dret,
                   listed, unguarded>>

\* Lines 204-206: one iteration of the range loop over results, in the
\* order the map yields.
Merge ==
    /\ dpc = "merge"
    /\ \E key \in unmerged :
          /\ objs' = objs \o results[key]
          /\ unmerged' = unmerged \ {key}
    /\ UNCHANGED <<discoveryFrame, dpc, gi, ai, wpc, result, lock, wg, results, dret,
                   listed, unguarded, early>>

\* Lines 193-195: the next group, with a new map and a new mutex.
NextGroup ==
    /\ dpc = "merge"
    /\ unmerged = {}
    /\ gi < Len(APIGroups)
    /\ gi' = gi + 1
    /\ ai' = 0
    /\ results' = EmptyMap
    /\ lock' = ""
    /\ dpc' = "spawn"
    /\ UNCHANGED <<discoveryFrame, wpc, result, wg, unmerged, objs, dret,
                   listed, unguarded, early>>

\* Line 209: return objs, nil.
DiscoveryReturn ==
    /\ dpc = "merge"
    /\ unmerged = {}
    /\ gi = Len(APIGroups)
    /\ dpc' = "returned"
    /\ dret' = [returned |-> TRUE, isErr |-> FALSE, objs |-> objs]
    /\ UNCHANGED <<discoveryFrame, gi, ai, wpc, result, lock, wg, results, unmerged, objs,
                   listed, unguarded, early>>

NextDiscovery ==
    \/ DiscoveryFails
    \/ DiscoverySucceeds
    \/ StartWorker
    \/ \E t \in ResourceTypes : WorkerList(t)
    \/ \E t \in ResourceTypes : WorkerLock(t)
    \/ \E t \in ResourceTypes : WorkerWrite(t)
    \/ \E t \in ResourceTypes : WorkerUnlock(t)
    \/ \E t \in ResourceTypes : WorkerDone(t)
    \/ Wait
    \/ Merge
    \/ NextGroup
    \/ DiscoveryReturn

SpecDiscovery == InitDiscovery /\ [][NextDiscovery]_vars

\* ------------------------------------------------- resolver: input space
\* Names, tracking identifiers and label values are sequences of characters.
NameA == <<"a">>
NameAB == <<"a", "b">>
NameP == <<"p">>
NameQ == <<"q">>
TrackingIDKey == "argocd.argoproj.io/tracking-id"
InstanceKey == "app.kubernetes.io/instance"
ArgoAPIVersion == "argoproj.io/v1alpha1"

\* app.Object["spec"] and its "project" entry: missing, of another type, or
\* of the type the resolver reads.
NoProject == [kind |-> "missing", value |-> << >>]
AppSpecs ==
    { [kind |-> "missing", project |-> NoProject],
      [kind |-> "scalar", project |-> NoProject],
      [kind |-> "map", project |-> NoProject],
      [kind |-> "map", project |-> [kind |-> "number", value |-> << >>]],
      [kind |-> "map", project |-> [kind |-> "string", value |-> NameP]],
      [kind |-> "map", project |-> [kind |-> "string", value |-> NameQ]] }
NoSpec == [kind |-> "missing", project |-> NoProject]

\* (annotations, labels) a workload is drawn with.
TrackingChoices ==
    { <<NoMeta, NoMeta>>,
      <<{<<TrackingIDKey, <<"a", ":", "x">>>>}, NoMeta>>,
      <<{<<TrackingIDKey, <<"a", "b", ":", "x">>>>}, NoMeta>>,
      <<{<<TrackingIDKey, <<"a">>>>}, NoMeta>>,
      <<NoMeta, {<<InstanceKey, NameA>>}>>,
      <<{<<TrackingIDKey, <<"x", ":", "a", ":">>>>}, {<<InstanceKey, NameAB>>}>> }

Ref(apiVersion, kind, uid, name) ==
    [apiVersion |-> apiVersion, kind |-> kind, uid |-> uid, name |-> name]
Resource(apiVersion, kind, uid, name, m, refs, spec) ==
    [apiVersion |-> apiVersion, kind |-> kind, uid |-> uid, clusterName |-> "",
     namespace |-> "argocd", name |-> name, annotations |-> m[1], labels |-> m[2],
     ownerReferences |-> refs, spec |-> spec]

TheAppSet ==
    Resource(ArgoAPIVersion, "ApplicationSet", "set", <<"s">>, <<NoMeta, NoMeta>>, << >>, NoSpec)
TheProject ==
    Resource(ArgoAPIVersion, "AppProject", "proj", NameP, <<NoMeta, NoMeta>>, << >>, NoSpec)
SetRef == Ref(ArgoAPIVersion, "ApplicationSet", "set", <<"s">>)
\* The applications of the cluster: one application named "a".
Applications ==
    { Resource(ArgoAPIVersion, "Application", "app", NameA, <<NoMeta, NoMeta>>, refs, spec) :
        refs \in {<< >>, <<SetRef>>}, spec \in AppSpecs }
\* Three workloads; each may name the next one up as owner, and the first
\* may close the cycle.
W1Ref == Ref("apps/v1", "Deployment", "w1", <<"d">>)
W2Ref == Ref("apps/v1", "ReplicaSet", "w2", <<"r">>)
W3Ref == Ref("v1", "Pod", "w3", <<"o">>)
Workloads1 ==
    { Resource("apps/v1", "Deployment", "w1", <<"d">>, m, refs, NoSpec) :
        m \in TrackingChoices, refs \in {<< >>, <<W3Ref>>} }
Workloads2 ==
    { Resource("apps/v1", "ReplicaSet", "w2", <<"r">>, m, refs, NoSpec) :
        m \in {<<NoMeta, NoMeta>>, <<NoMeta, {<<InstanceKey, NameA>>}>>},
        refs \in {<< >>, <<W1Ref>>} }
Workloads3 ==
    { Resource("v1", "Pod", "w3", <<"o">>, <<NoMeta, NoMeta>>, refs, NoSpec) :
        refs \in {<< >>, <<W2Ref>>} }

\* What the list requests of the resolver return: getAllObjects (objs, or an
\* error) and getAllApplications (apps, or an error).
Snapshots ==
    { [objs |-> proj \o <<app, w1, w2, w3>>, objsErr |-> oe, apps |-> <<app>>, appsErr |-> ae] :
        proj \in {<< >>, <<TheProject>>}, app \in Applications,
        w1 \in Workloads1, w2 \in Workloads2, w3 \in Workloads3,
        oe \in BOOLEAN, ae \in BOOLEAN }

\* Depth of buildIndirectGraph at which the goroutine stack is exhausted.
StackCap == 4

\* ----------------------------------------------------------------- resolver
\* m[key] of a map of strings: presence and value.
Has(m, key) == \E p \in m : p[1] = key
Get(m, key) == (CHOOSE p \in m : p[1] = key)[2]

\* strings.HasPrefix(s, prefix)
HasPrefix(s, prefix) == Len(s) >= Len(prefix) /\ SubSeq(s, 1, Len(prefix)) = prefix
\* fmt.Sprintf("%s:", name)
WithColon(name) == name \o <<":">>

\* A variant that compares the tracking identifier with the bare name.
isDirectChildBareName(app, o) ==
    \/ Has(o.annotations, TrackingIDKey) /\ HasPrefix(Get(o.annotations, TrackingIDKey), app.name)
    \/ Has(o.labels, InstanceKey) /\ Get(o.labels, InstanceKey) = app.name

\* isDirectChild(app, obj)
isDirectChild(app, o) ==
    \/ /\ Has(o.annotations, TrackingIDKey)
       /\ HasPrefix(Get(o.annotations, TrackingIDKey), WithColon(app.name))
    \/ /\ Has(o.labels, InstanceKey)
       /\ Get(o.labels, InstanceKey) = app.name

\* The type assertions of line 52 succeed.
ProjectReadable(app) == app.spec.kind = "map" /\ app.spec.project.kind = "string"

\* directChildren after the loop of lines 64-82: the discovered objects
\* classified as direct children, by UID (the last object of a UID stays).
DirectChildren(app, os) ==
    LET uids == { os[k].uid : k \in { j \in 1..Len(os) : isDirectChild(app, os[j]) } }
    IN  [u \in uids |->
            os[CHOOSE k \in 1..Len(os) :
                  /\ os[k].uid = u /\ isDirectChild(app, os[k])
                  /\ \A j \in (k + 1)..Len(os) : ~(os[j].uid = u /\ isDirectChild(app, os[j]))]]

\* childMap after the loop of lines 64-82: per owner UID, the discovered
\* objects naming it, in the order met.
ChildMapKeys(os) ==
    UNION { { os[k].ownerReferences[j].uid : j \in 1..Len(os[k].ownerReferences) } :
              k \in 1..Len(os) }
RECURSIVE ChildrenOf(_, _, _)
ChildrenOf(os, parent, k) ==
    IF k > Len(os) THEN << >>
    ELSE LET o    == os[k]
             refs == { j \in 1..Len(o.ownerReferences) : o.ownerReferences[j].uid = parent }
             rec  == [j \in 1..Cardinality(refs) |-> o]
         IN  rec \o ChildrenOf(os, parent, k + 1)
ChildMap(os) == [parent \in ChildMapKeys(os) |-> ChildrenOf(os, parent, 1)]

RECURSIVE ProjectRelationships(_, _, _, _)
\* Lines 65-70 over objs from index k on: every discovered AppProject named
\* like the project of the application is registered and related.
ProjectRelationships(G, app, os, k) ==
    IF k > Len(os) THEN G
    ELSE LET o == os[k]
         IN  IF /\ o.kind = "AppProject"
                /\ o.apiVersion = ArgoAPIVersion
                /\ o.name = app.spec.project.value
             THEN LET G1 == Node(G, o.apiVersion, o.kind, o)
                  IN  ProjectRelationships(Relationship(G1, app.uid, o.kind, o.uid).G,
                                           app, os, k + 1)
             ELSE ProjectRelationships(G, app, os, k + 1)

RECURSIVE buildChildren(_, _, _, _, _)
RECURSIVE buildIndirectGraphOneLevel(_, _, _, _)
RECURSIVE buildIndirectGraph(_, _, _, _)

\* A variant that relates the children and does not descend.
buildIndirectGraphOneLevel(G, uid, childMap, depth) ==
    IF uid \notin DOMAIN childMap THEN [G |-> G, overflow |-> FALSE]
    ELSE LET Fold[k \in 0..Len(childMap[uid])] ==
                 IF k = 0 THEN G
                 ELSE LET child == childMap[uid][k]
                          G1 == Node(Fold[k - 1], child.apiVersion, child.kind, child)
                      IN  Relationship(G1, uid, child.kind, child.uid).G
         IN  [G |-> Fold[Len(childMap[uid])], overflow |-> FALSE]

\* buildIndirectGraph(node, obj, childMap), node being the node of obj and
\* depth the number of frames of the function on the stack. Yields the graph
\* afterwards and whether the stack was exhausted.
buildIndirectGraph(G, uid, childMap, depth) ==
    IF depth > StackCap THEN [G |-> G, overflow |-> TRUE]
    ELSE IF uid \notin DOMAIN childMap THEN [G |-> G, overflow |-> FALSE]
    ELSE buildChildren(G, uid, childMap, 1, depth)

\* The loop of lines 97-102 from the k-th child of uid on.
buildChildren(G, uid, childMap, k, depth) ==
    IF k > Len(childMap[uid]) THEN [G |-> G, overflow |-> FALSE]
    ELSE LET child == childMap[uid][k]
             G1 == Node(G, child.apiVersion, child.kind, child)
             G2 == Relationship(G1, uid, child.kind, child.uid).G
             r  == buildIndirectGraph(G2, child.uid, childMap, depth + 1)
         IN  IF r.overflow THEN r ELSE buildChildren(r.G, uid, childMap, k + 1, depth)

RECURSIVE RelateDirectChildren(_, _, _, _, _, _)
\* The loop of lines 85-90, the map directChildren yielding its keys in the
\* order `order`, from the k-th on.
RelateDirectChildren(G, app, direct, childMap, order, k) ==
    IF k > Len(order) THEN [G |-> G, overflow |-> FALSE]
    ELSE LET child == direct[order[k]]
             G1 == Node(G, child.apiVersion, child.kind, child)
             G2 == Relationship(G1, app.uid, child.kind, child.uid).G
             r  == buildIndirectGraph(G2, child.uid, childMap, 1)
         IN  IF r.overflow THEN r
             ELSE RelateDirectChildren(r.G, app, direct, childMap, order, k + 1)

\* The orders in which a range loop may yield the keys of a map.
Orders(keys) ==
    { sq \in [1..Cardinality(keys) -> keys] : \A u \in keys : \E k \in DOMAIN sq : sq[k] = u }

\* Outcomes of an entry point: "ok" (node, nil), "error" (an error value is
\* returned), "panic" (a failed type assertion), "overflow" (the stack is
\* exhausted). direct is directChildren of the last Application call.
Outcome(G, outcome, direct) == [G |-> G, outcome |-> outcome, direct |-> direct]

\* ArgoCDGraph.Application(app), the snapshot giving what getAllObjects
\* returns and order the iteration order of directChildren.
Application(G, app, snap, order) ==
    LET G1 == Node(G, app.apiVersion, app.kind, app)
    IN  IF ~ProjectReadable(app) THEN Outcome(G1, "panic", {})
        ELSE IF snap.objsErr THEN Outcome(G1, "error", {})
        ELSE LET G2     == ProjectRelationships(G1, app, snap.objs, 1)
                 direct == DirectChildren(app, snap.objs)
                 r      == RelateDirectChildren(G2, app, direct, ChildMap(snap.objs), order, 1)
             IN  Outcome(r.G, IF r.overflow THEN "overflow" ELSE "ok", DOMAIN direct)

\* The applications of lines 120-127: owned by the application set.
OwnedApplications(appset, apps) ==
    SelectSeq(apps, LAMBDA a :
        \E j \in 1..Len(a.ownerReferences) :
            a.ownerReferences[j].uid = appset.uid /\ a.ownerReferences[j].kind = "ApplicationSet")

RECURSIVE ResolveOwned(_, _, _, _, _, _)
RECURSIVE RelateOwned(_, _, _, _, _, _)
\* Lines 133-138, r being what g.Application returned for the k-th owned
\* application: its error is returned, or the application is related to
\* the application set and the loop goes on.
RelateOwned(r, appset, owned, snap, order, k) ==
    IF r.outcome # "ok" THEN r
    ELSE [ResolveOwned(Relationship(r.G, appset.uid, owned[k].kind, owned[k].uid).G,
                       appset, owned, snap, order, k + 1)
            EXCEPT !.direct = r.direct]

\* The loop of lines 130-139 from the k-th owned application on.
ResolveOwned(G, appset, owned, snap, order, k) ==
    IF k > Len(owned) THEN Outcome(G, "ok", {})
    ELSE RelateOwned(Application(G, owned[k], snap, order), appset, owned, snap, order, k)

\* ArgoCDGraph.ApplicationSet(appset)
ApplicationSet(G, appset, snap, order) ==
    LET G1 == Node(G, appset.apiVersion, appset.kind, appset)
    IN  IF snap.appsErr THEN Outcome(G1, "error", {})
        ELSE ResolveOwned(G1, appset, OwnedApplications(appset, snap.apps), snap, order, 1)

RECURSIVE ResolveProjectApps(_, _, _, _, _)
RECURSIVE RelateProjectApp(_, _, _, _, _)
\* Lines 174-179, r being what g.Application returned for the k-th
\* application: its error is returned, or the application is related to
\* the project and the loop goes on.
RelateProjectApp(r, proj, snap, order, k) ==
    IF r.outcome # "ok" THEN r
    ELSE [ResolveProjectApps(
              Relationship(r.G, proj.uid, snap.apps[k].kind, snap.apps[k].uid).G,
              proj, snap, order, k + 1)
            EXCEPT !.direct = r.direct]

\* The loop of lines 159-181 from the k-th application on.
ResolveProjectApps(G, proj, snap, order, k) ==
    IF k > Len(snap.apps) THEN Outcome(G, "ok", {})
    ELSE IF snap.apps[k].spec.kind # "map" THEN Outcome(G, "error", {})
    ELSE IF snap.apps[k].spec.project.kind # "string" THEN Outcome(G, "error", {})
    ELSE IF snap.apps[k].spec.project.value # proj.name
    THEN ResolveProjectApps(G, proj, snap, order, k + 1)
    ELSE RelateProjectApp(Application(G, snap.apps[k], snap, order), proj, snap, order, k)

\* ArgoCDGraph.AppProject(obj)
AppProject(G, proj, snap, order) ==
    LET G1 == Node(G, proj.apiVersion, proj.kind, proj)
    IN  IF snap.appsErr THEN Outcome(G1, "error", {})
        ELSE ResolveProjectApps(G1, proj, snap, order, 1)

InitResolver ==
    /\ Nodes = EmptyGraph.Nodes
    /\ Relationships = EmptyGraph.Relationships
    /\ n = 0
    /\ BatchIdle
    /\ RenderIdle
    /\ DiscoveryIdle
    /\ snapshot \in Snapshots
    /\ resolved = NoResolution

\* The record of a call of an entry point on object o.
Resolution(entry, o, r) ==
    [entry |-> entry, uid |-> o.uid, outcome |-> r.outcome, direct |-> r.direct]

\* The iteration orders of directChildren for the application of the snapshot.
DirectOrders == Orders(DOMAIN DirectChildren(snapshot.apps[1], snapshot.objs))

\* ArgoCDGraph.Unstructured, case "Application".
ResolveApplication ==
    /\ resolved.entry = "none"
    /\ \E order \in DirectOrders :
          LET r == Application(g, snapshot.apps[1], snapshot, order)
          IN  /\ Nodes' = r.G.Nodes
              /\ Relationships' = r.G.Relationships
              /\ resolved' = Resolution("Application", snapshot.apps[1], r)
    /\ UNCHANGED <<n, batchVars, renderVars, discoveryVars, snapshot>>

\* ArgoCDGraph.Unstructured, case "ApplicationSet".
ResolveApplicationSet ==
    /\ resolved.entry = "none"
    /\ \E order \in DirectOrders :
          LET r == ApplicationSet(g, TheAppSet, snapshot, order)
          IN  /\ Nodes' = r.G.Nodes
              /\ Relationships' = r.G.Relationships
              /\ resolved' = Resolution("ApplicationSet", TheAppSet, r)
    /\ UNCHANGED <<n, batchVars, renderVars, discoveryVars, snapshot>>

\* ArgoCDGraph.Unstructured, case "AppProject".
ResolveAppProject ==
    /\ resolved.entry = "none"
    /\ \E order \in DirectOrders :
          LET r == AppProject(g, TheProject, snapshot, order)
          IN  /\ Nodes' = r.G.Nodes
              /\ Relationships' = r.G.Relationships
              /\ resolved' = Resolution("AppProject", TheProject, r)
    /\ UNCHANGED <<n, batchVars, renderVars, discoveryVars, snapshot>>

\* ArgoCDGraph.Unstructured, default case: the object is registered.
ResolveOther ==
    /\ resolved.entry = "none"
    /\ \E k \in 1..Len(snapshot.objs) :
          LET o == snapshot.objs[k]
              G1 == Node(g, o.apiVersion, o.kind, o)
          IN  /\ o.kind \notin {"ApplicationSet", "Application", "AppProject"}
              /\ Nodes' = G1.Nodes
              /\ Relationships' = G1.Relationships
              /\ resolved' = Resolution("Node", o, Outcome(G1, "ok", {}))
    /\ UNCHANGED <<n, batchVars, renderVars, discoveryVars, snapshot>>

NextResolver ==
    \/ ResolveApplication
    \/ ResolveApplicationSet
    \/ ResolveAppProject
    \/ ResolveOther

SpecResolver == InitResolver /\ [][NextResolver]_vars

\* ================================================================== claims
RequestLabels == {"Foo", "Pod"}
NonRoots == { u \in DOMAIN Nodes : ~IsRoot(Nodes[u]) }

\* C1: the graph holds at most one relationship per ordered (from, to) pair,
\* every relationship is stored under its target, and a Relationship call for
\* a pair that already has a relationship, whatever the label requested,
\* leaves the graph as it is and returns the stored relationship with its
\* original label; a call for a new pair adds exactly that relationship.
C1_OneRelationshipPerPair ==
    /\ \A t \in DOMAIN Relationships :
         /\ Len(Relationships[t]) >= 1
         /\ \A j, k \in 1..Len(Relationships[t]) :
              /\ Relationships[t][j].To = t
              /\ (j # k => Relationships[t][j].From # Relationships[t][k].From)
    /\ \A from, to \in DOMAIN Nodes, label \in RequestLabels :
         LET res == Relationship(g, from, label, to)
             rs  == IF to \in DOMAIN Relationships THEN Relationships[to] ELSE << >>
         IN  IF \E k \in 1..Len(rs) : rs[k].From = from
             THEN /\ res.G = g
                  /\ \E k \in 1..Len(rs) : rs[k] = res.r /\ res.r.From = from
             ELSE /\ res.r = NewRelationship(from, label, to)
                  /\ res.G.Nodes = Nodes
                  /\ res.G.Relationships = Put(Relationships, to, Append(rs, res.r))
    /\ (lastRelate.called /\ lastRelate.existed) =>
         /\ lastRelate.returned = lastRelate.existing
         /\ Between(g, lastRelate.from, lastRelate.to) = {lastRelate.existing}
    /\ (lastRelate.called /\ ~lastRelate.existed) =>
         /\ lastRelate.returned = NewRelationship(lastRelate.from, lastRelate.label, lastRelate.to)
         /\ Between(g, lastRelate.from, lastRelate.to) = {lastRelate.returned}

\* A handler asked for a pair that owner expansion had related under the
\* label "Pod", with the label "Service".
C1_Witness ==
    /\ pc = "callback"
    /\ lastRelate.called
    /\ lastRelate.existed
    /\ lastRelate.label = "Service"
    /\ lastRelate.returned.Label = "Pod"

\* C2: for every UID the stored label set is the first non-empty label set
\* presented by the upserts of that UID (empty if none was non-empty), and
\* the stored annotation set is the first non-empty annotation set presented.
C2_FirstNonEmptyWins ==
    \A u \in DOMAIN Nodes :
        /\ Nodes[u].labels =
              (IF u \in DOMAIN firstLabels THEN firstLabels[u] ELSE NoMeta)
        /\ Nodes[u].annotations =
              (IF u \in DOMAIN firstAnnotations THEN firstAnnotations[u] ELSE NoMeta)

\* The second upsert of a UID carried no labels and the annotations team:x;
\* the node keeps the labels env:prod of the first and adopts the annotations.
C2_Witness ==
    /\ pc = "callback"
    /\ unstructuredCalls = 2
    /\ obj.labels = NoMeta
    /\ obj.annotations = {<<"team", "x">>}
    /\ Nodes[obj.uid].labels = {<<"env", "prod">>}
    /\ Nodes[obj.uid].annotations = {<<"team", "x">>}

\* What Node leaves for an object o with one owner reference, from the empty
\* graph: the object, the owner stub, one relationship owner -> object.
OwnerExpansion(G, o) ==
    LET ref == o.ownerReferences[1]
    IN  /\ DOMAIN G.Nodes = {o.uid, ref.uid}
        /\ G.Nodes[o.uid] = NewNode(o.apiVersion, o.kind, o)
        /\ G.Nodes[ref.uid] =
              [apiVersion |-> ref.apiVersion, kind |-> ref.kind, uid |-> ref.uid,
               clusterName |-> "", namespace |-> o.namespace, name |-> ref.name,
               annotations |-> NoMeta, labels |-> NoMeta]
        /\ DOMAIN G.Relationships = {o.uid}
        /\ G.Relationships[o.uid] = << NewRelationship(ref.uid, o.kind, o.uid) >>

OneForeignOwner(o) ==
    Len(o.ownerReferences) = 1 /\ o.ownerReferences[1].uid # o.uid

\* C3: from the empty graph, Node applied to an object with exactly one owner
\* reference to another UID leaves exactly two nodes, the object and a stub
\* with the reference's apiVersion, kind, UID and name and the object's
\* namespace, and exactly one relationship owner -> object labeled with the
\* object's kind.
C3_OwnerExpansion ==
    /\ (pc = "loop" /\ unstructuredCalls = 0) =>
          \A o \in Objects :
              OneForeignOwner(o) => OwnerExpansion(Node(g, o.apiVersion, o.kind, o), o)
    /\ (pc = "callback" /\ unstructuredCalls = 1 /\ OneForeignOwner(obj)
          /\ obj.apiVersion \notin HandledGroups) => OwnerExpansion(g, obj)

\* The first object of the batch, of an unhandled group, named one owner
\* that was never ingested.
C3_Witness ==
    /\ pc = "callback"
    /\ unstructuredCalls = 1
    /\ OneForeignOwner(obj)
    /\ obj.apiVersion \notin HandledGroups
    /\ Cardinality(DOMAIN Nodes) = 2
    /\ Cardinality(RelationshipList(g)) = 1

FinalizeSucceeded == pc = "finalized" /\ finErr = NoErr

HasIncoming(u) == u \in DOMAIN Relationships /\ Len(Relationships[u]) >= 1

\* C4: when Finalize returns without error, every node whose kind is neither
\* Cluster nor Namespace has at least one incoming relationship.
C4_EveryNodeHasIncoming ==
    FinalizeSucceeded => \A u \in NonRoots : HasIncoming(u)

\* The pass connected a cluster-scoped node to the cluster root and a
\* namespaced node to its namespace root.
C4_Witness ==
    /\ FinalizeSucceeded
    /\ pass = 1
    /\ \E r \in finAdded.rels : Nodes[r.From].kind = "Cluster"
    /\ \E r \in finAdded.rels : Nodes[r.From].kind = "Namespace"

RECURSIVE ReachableFrom(_)
\* The nodes reachable from the set S along relationships.
ReachableFrom(S) ==
    LET more == { r.To : r \in { x \in RelationshipList(g) : x.From \in S } }
    IN  IF more \subseteq S THEN S ELSE ReachableFrom(S \cup more)

Roots == { u \in DOMAIN Nodes : IsRoot(Nodes[u]) }

\* No relationship of the graph was added by a group handler.
OwnerExpansionOnly == \A r \in RelationshipList(g) : r.Label \notin HandlerLabels

\* C5: when Finalize returns without error, every node whose kind is neither
\* Cluster nor Namespace is reachable along relationships from a Cluster or
\* Namespace node; stated for the graphs that owner-reference expansion
\* alone builds.
C5_EveryNodeReachableFromRoot ==
    (FinalizeSucceeded /\ OwnerExpansionOnly) => NonRoots \subseteq ReachableFrom(Roots)

\* C6: a second Finalize pass, run on the graph a successful pass left, adds
\* no relationship.
C6_SecondPassAddsNothing ==
    pass = 2 => /\ Relationships = relsBefore
                /\ finAdded.rels = {}

\* The second pass ran to its end over a graph with nodes that the first
\* pass had connected.
C6_Witness ==
    /\ pass = 2
    /\ pc = "finalized"
    /\ finErr = NoErr
    /\ NonRoots \subseteq visited
    /\ \E u \in NonRoots : Nodes[Relationships[u][1].From].kind = "Namespace"
    /\ \E u \in NonRoots : ~IsRoot(Nodes[Relationships[u][1].From])

\* C7: a node that had an incoming relationship when the pass reached it has
\* the incoming relationships it had when the pass started.
C7_ConnectedNodesUntouched ==
    \A u \in reachedConnected :
        /\ u \in DOMAIN relsBefore
        /\ Relationships[u] = relsBefore[u]

\* The first pass skipped a node connected by an owner reference and
\* connected another node.
C7_Witness ==
    /\ FinalizeSucceeded
    /\ pass = 1
    /\ \E u \in reachedConnected \cap NonRoots : TRUE
    /\ finAdded.rels # {}

\* C8: an error of a root resolution ends the pass at that node with that
\* error: the loop never runs on after an error, the error names the last
\* node visited, nothing is added for the nodes not visited, and what earlier
\* iterations added is still in the store.
C8_ErrorAbortsPass ==
    /\ pc = "finalize" => finErr = NoErr
    /\ (pc = "finalized" /\ finErr # NoErr) =>
          /\ finErr.kind \in {"cluster", "namespace"}
          /\ finErr.uid \in visited
          /\ finAdded.nodes \subseteq DOMAIN Nodes
          /\ finAdded.rels \subseteq RelationshipList(g)
          /\ \A u \in DOMAIN Nodes \ visited :
                /\ (u \in DOMAIN Relationships) <=> (u \in DOMAIN relsBefore)
                /\ u \in DOMAIN Relationships => Relationships[u] = relsBefore[u]
          /\ \A r \in finAdded.rels : r.To \in visited /\ r.To # finErr.uid

\* A pass failed at its second node, after the iteration of the first had
\* added a root and a relationship.
C8_Witness ==
    /\ pc = "finalized"
    /\ finErr # NoErr
    /\ finAdded.rels # {}
    /\ finAdded.nodes # {}
    /\ Cardinality(visited \cap NonRoots) = 2

PerObjectErrorsKept ==
    /\ Len(ret.err.errors) >= Len(handlerErrs)
    /\ SubSeq(ret.err.errors, 1, Len(handlerErrs)) = handlerErrs

\* C9 as stated: every object is passed to Unstructured, each is registered
\* before its handler runs, and the aggregate returned holds every
\* per-object error and is nil when there was none.
C9_AggregateNilWithoutObjectErrors ==
    /\ pc = "callback" => obj.uid \in DOMAIN Nodes
    /\ ret.returned =>
          /\ unstructuredCalls = n
          /\ PerObjectErrorsKept
          /\ (handlerErrs = << >> => ret.err.isNil)

\* C9, amended: every object is passed to Unstructured whatever errors came
\* before, each is registered as a node before its handler runs, and the
\* aggregate returned holds every per-object error, followed by the error of
\* Finalize if it failed; it is nil exactly when there was no per-object
\* error and Finalize returned none.
C9_AggregateHoldsEveryError ==
    /\ pc = "callback" =>
          /\ obj.uid \in DOMAIN Nodes
          /\ lastRelate.called => lastRelate.to \in DOMAIN Nodes
    /\ unstructuredCalls <= n
    /\ ret.returned =>
          /\ unstructuredCalls = n
          /\ PerObjectErrorsKept
          /\ ret.err.errors =
                handlerErrs \o (IF ret.finalizeErr # NoErr THEN <<ret.finalizeErr>> ELSE << >>)
          /\ ret.err.isNil <=> (handlerErrs = << >> /\ ret.finalizeErr = NoErr)

\* NewGraph returned after both objects of a batch of two failed in their
\* handlers.
C9_Witness ==
    /\ ret.returned
    /\ n = 2
    /\ Len(handlerErrs) = 2
    /\ ~ret.err.isNil
    /\ Cardinality(DOMAIN Nodes) >= 2

\* C10: NewGraph invokes Finalize exactly once, after the last object of the
\* batch was ingested; the progress callback runs once per object, after the
\* object's ingestion and before Finalize starts.
C10_FinalizeOnceAfterBatch ==
    /\ ~ret.returned => pass <= 1
    /\ ret.returned => pass >= 1
    /\ pass >= 1 => (i = n /\ processed = n /\ unstructuredCalls = n)
    /\ processed = i
    /\ processed <= n
    /\ unstructuredCalls = (IF pc = "callback" THEN processed + 1 ELSE processed)

\* NewGraph returned for a full batch in which an object failed.
C10_Witness ==
    /\ ret.returned
    /\ pass = 1
    /\ n = MaxObjs
    /\ processed = n
    /\ handlerErrs # << >>

\* C13: applying Node to an object twice in a row leaves the node table and
\* the relationships that applying it once leaves, for every graph the
\* ingestion of a batch builds and every object.
C13_NodeIdempotent ==
    pc = "loop" =>
        \A o \in Objects :
            LET once  == Node(g, o.apiVersion, o.kind, o)
                twice == Node(once, o.apiVersion, o.kind, o)
            IN  /\ twice.Nodes = once.Nodes
                /\ RelationshipList(twice) = RelationshipList(once)
                /\ twice.Relationships = once.Relationships

\* The batch ingested the same object, with an owner reference, twice in a
\* row: one node for it, one for the owner, one relationship.
C13_Witness ==
    /\ pc = "callback"
    /\ unstructuredCalls = 2
    /\ n = 2
    /\ Len(obj.ownerReferences) = 1
    /\ obj.ownerReferences[1].uid # obj.uid
    /\ obj.apiVersion \notin HandledGroups
    /\ Nodes = Node(EmptyGraph, obj.apiVersion, obj.kind, obj).Nodes
    /\ Relationships = Node(EmptyGraph, obj.apiVersion, obj.kind, obj).Relationships

\* C18: Node terminates, and its recursion never goes deeper than one level
\* below the ingested object, whatever the owner references name (another
\* object, a cycle, the object itself): it makes one call per owner
\* reference, each for a stub without owner references.
C18_RecursionDepthOne ==
    /\ (pc = "loop" /\ i = 0) => \A o \in Objects :
          /\ NodeDepth(o, 0) = (IF Len(o.ownerReferences) = 0 THEN 0 ELSE 1)
          /\ NodeCalls(o, 0) = 1 + Len(o.ownerReferences)
          /\ \A k \in 1..Len(o.ownerReferences) :
                Len(OwnerStub(o.ownerReferences[k], o).ownerReferences) = 0
    /\ pc = "callback" =>
          /\ NodeDepth(obj, 0) <= 1
          /\ DOMAIN Node(EmptyGraph, obj.apiVersion, obj.kind, obj).Nodes =
                {obj.uid} \cup { obj.ownerReferences[k].uid : k \in 1..Len(obj.ownerReferences) }

\* An object that names itself as owner was ingested, after an object owned
\* by it: the owner references form a cycle.
C18_Witness ==
    /\ pc = "callback"
    /\ unstructuredCalls = 2
    /\ Len(obj.ownerReferences) = 1
    /\ obj.ownerReferences[1].uid = obj.uid
    /\ \E u \in DOMAIN Relationships :
          u # obj.uid /\ \E k \in 1..Len(Relationships[u]) : Relationships[u][k].From = obj.uid

\* C19: after all objects of the batch are ingested, the node of each
\* directly ingested object carries the name and namespace of that object,
\* whatever the order of the batch; and after a successful Finalize a
\* directly ingested cluster-scoped object is not attached to a namespace
\* root.
C19_DescriptorIndependentOfOrder ==
    /\ (pc = "loop" /\ ~MoreObjects) =>
          \A u \in DOMAIN ingestedAs :
              /\ Nodes[u].name = ingestedAs[u].name
              /\ Nodes[u].namespace = ingestedAs[u].namespace
    /\ (pc = "done" /\ ret.finalizeErr = NoErr) =>
          \A u \in DOMAIN ingestedAs :
              ingestedAs[u].namespace = "" =>
                  ~\E r \in RelationshipList(g) :
                      r.To = u /\ r.From \in DOMAIN Nodes /\ Nodes[r.From].kind = "Namespace"

\* C14: a rendering requested with a format name that is not a registered
\* template returns an error to the caller and produces no output, for Write
\* (nothing reaches the stream) and for String (no text is returned).
C14_UnknownFormatIsError ==
    (rendered.call # "none" /\ format \notin RegisteredTemplates) =>
        /\ rendered.isErr
        /\ stream = << >>
        /\ rendered.out = << >>

\* The number of entries of the sequence sq equal to x.
Occurrences(sq, x) == Cardinality({ k \in 1..Len(sq) : sq[k] = x })
\* The resource types whose list request succeeded, resp. failed.
ListedOk == { t \in ResourceTypes : listed[t].done /\ listed[t].ok }
ListFailed == { t \in ResourceTypes : listed[t].done /\ ~listed[t].ok }

\* C11: when the list request of a resource type fails, getAllObjects still
\* returns a nil error, the type contributes no object, and the collection
\* returned holds the objects of every type whose list request succeeded.
C11_FailedListIsEmptyResult ==
    (dpc = "returned" /\ ListFailed # {}) =>
        /\ ~dret.isErr
        /\ \A t \in ListFailed :
              \A k \in 1..Len(dret.objs) : dret.objs[k].gvr # GVRString(t)
        /\ \A t \in ListedOk :
              \A k \in 1..Len(listed[t].items) : Occurrences(dret.objs, listed[t].items[k]) >= 1

\* C15: under every interleaving of the list workers no result is lost or
\* duplicated: results is written only with the lock held, the merge reads
\* it only when every worker of the group is over, and the collection
\* returned holds each object of each successfully listed type exactly once.
C15_NoResultLostOrDuplicated ==
    /\ ~unguarded
    /\ ~early
    /\ (dpc = "returned" /\ ~dret.isErr) =>
          /\ \A t \in ListedOk :
                \A k \in 1..Len(listed[t].items) :
                    Occurrences(dret.objs, listed[t].items[k]) = 1
          /\ Len(dret.objs) = Cardinality({ dret.objs[k] : k \in 1..Len(dret.objs) })

\* The application of the snapshot and the objects getAllObjects returned.
TheApp == snapshot.apps[1]
Discovered == { snapshot.objs[k] : k \in 1..Len(snapshot.objs) }
Related(from, to) == \E r \in RelationshipList(g) : r.From = from /\ r.To = to

\* The identifier id consists of the name, a colon and any rest.
StartsWithNameAndColon(id, name) ==
    /\ Len(id) > Len(name)
    /\ \A k \in 1..Len(name) : id[k] = name[k]
    /\ id[Len(name) + 1] = ":"
\* The object carries tracking metadata naming the application.
TrackedBy(o, app) ==
    \/ \E p \in o.annotations : p[1] = TrackingIDKey /\ StartsWithNameAndColon(p[2], app.name)
    \/ \E p \in o.labels : p[1] = InstanceKey /\ p[2] = app.name

\* C12: a discovered object is classified as a direct child of the
\* application exactly when its tracking-id annotation exists and starts
\* with the application name followed by a colon, or its instance label
\* exists and equals the application name; the application node is related
\* to the objects so classified and an object with neither is not classified.
C12_DirectChildByTrackingMetadata ==
    (resolved.entry = "Application" /\ resolved.outcome \in {"ok", "overflow"}) =>
        /\ resolved.direct = { o.uid : o \in { d \in Discovered : TrackedBy(d, TheApp) } }
        /\ \A o \in Discovered :
              (o.annotations = NoMeta /\ o.labels = NoMeta) => o.uid \notin resolved.direct
        /\ resolved.outcome = "ok" => \A u \in resolved.direct : Related(TheApp.uid, u)

\* Application resolution classified a workload by its annotation alone,
\* and left out a workload whose annotation names an application whose name
\* merely starts with this application's name.
C12_Witness ==
    /\ resolved.entry = "Application"
    /\ resolved.outcome = "ok"
    /\ \E o \in Discovered :
          /\ o.uid = "w1"
          /\ o.labels = NoMeta
          /\ o.annotations = {<<TrackingIDKey, <<"a", ":", "x">>>>}
          /\ "w1" \in resolved.direct
    /\ "w2" \notin resolved.direct
    /\ Related(TheApp.uid, "w1")

\* The owner references among the discovered objects: <<child, owner>>.
OwnerEdges ==
    UNION { { <<o.uid, o.ownerReferences[j].uid>> : j \in 1..Len(o.ownerReferences) } :
              o \in Discovered }
RECURSIVE Upwards(_, _)
\* The UIDs reached from the UIDs of S along owner references.
Upwards(S, seen) ==
    LET next == { e[2] : e \in { x \in OwnerEdges : x[1] \in S } } \ seen
    IN  IF next = {} THEN seen ELSE Upwards(next, seen \cup next)
Ancestors(u) == Upwards({u}, {})
Acyclic == \A o \in Discovered : o.uid \notin Ancestors(o.uid)

\* The kind of the discovered object of the given UID.
DiscoveredKind(u) == (CHOOSE o \in Discovered : o.uid = u).kind
RECURSIVE Downwards(_, _)
\* The UIDs reached from the UIDs of S along relationships parent -> child
\* labeled with the kind of the child.
Downwards(S, seen) ==
    LET next == { r.To : r \in { x \in RelationshipList(g) :
                                   /\ x.From \in S
                                   /\ \E o \in Discovered : o.uid = x.To
                                   /\ x.Label = DiscoveredKind(x.To) } } \ seen
    IN  IF next = {} THEN seen ELSE Downwards(next, seen \cup next)

\* C16: when the owner references among the discovered objects are acyclic,
\* Application resolution terminates, the application node is related to
\* every direct child, and every discovered object descending from a direct
\* child through owner references is reached from the application node by
\* relationships parent -> child labeled with the kind of the child, with or
\* without tracking metadata of its own.
C16_DescendantsReachable ==
    (/\ resolved.entry = "Application"
     /\ ProjectReadable(TheApp)
     /\ ~snapshot.objsErr
     /\ Acyclic) =>
        /\ resolved.outcome = "ok"
        /\ \A d \in Discovered :
              TrackedBy(d, TheApp) =>
                  /\ Related(TheApp.uid, d.uid)
                  /\ \A o \in Discovered :
                        d.uid \in Ancestors(o.uid) =>
                            o.uid \in Downwards({TheApp.uid}, {})

\* Application resolution reached a pod without tracking metadata through
\* its replica set, owned by a tracked deployment.
C16_Witness ==
    /\ resolved.entry = "Application"
    /\ resolved.outcome = "ok"
    /\ Acyclic
    /\ resolved.direct = {"w1"}
    /\ Ancestors("w3") = {"w2", "w1"}
    /\ \E r \in RelationshipList(g) : r.From = "w2" /\ r.To = "w3" /\ r.Label = "Pod"
    /\ "w3" \in Downwards({TheApp.uid}, {})

\* The entry point called met an application whose spec or project field is
\* missing or ill-typed.
MetUnreadable ==
    \/ resolved.entry = "Application" /\ ~ProjectReadable(TheApp)
    \/ /\ resolved.entry = "ApplicationSet"
       /\ ~snapshot.appsErr
       /\ Len(OwnedApplications(TheAppSet, snapshot.apps)) > 0
       /\ ~ProjectReadable(TheApp)
    \/ resolved.entry = "AppProject" /\ ~snapshot.appsErr /\ ~ProjectReadable(TheApp)

\* C17: whenever the resolver meets an application whose spec is missing or
\* not a map, or whose project is missing or not a string, the entry point
\* called (Application, ApplicationSet, AppProject) returns an error value
\* to its caller and does not crash.
C17_UnreadableProjectIsError ==
    MetUnreadable => resolved.outcome = "error"

\* C20: after Application, ApplicationSet or AppProject resolution there is
\* no relationship from an application node to the node of its project, and
\* no two nodes are related in both directions.
C20_ProjectToApplicationOnly ==
    resolved.entry \in {"Application", "ApplicationSet", "AppProject"} =>
        /\ \A r \in RelationshipList(g) :
              ~(/\ r.From = TheApp.uid
                /\ r.To = TheProject.uid
                /\ ProjectReadable(TheApp)
                /\ TheApp.spec.project.value = TheProject.name)
        /\ \A r1, r2 \in RelationshipList(g) :
              ~(r1.From # r1.To /\ r1.From = r2.To /\ r1.To = r2.From)

====
